---- MODULE Spec2Model ----
(***************************************************************************)
(* stock-dis.py: distribution of the growth of every fixed-length          *)
(* investment in a price series, and the time underperforming investments  *)
(* need to catch up with the consumer price index (CPI).                   *)
(*                                                                         *)
(* Python floats are modelled as exact rationals <<num, den>> in lowest    *)
(* terms.  All modelled inputs are small integers and the rates make the   *)
(* benchmarks dyadic, so every comparison the program makes between two    *)
(* floats has the outcome of the comparison of the exact values.           *)
(* Python lists are sequences; At(s, i) is the 0-based s[i].               *)
(***************************************************************************)
EXTENDS Integers, Sequences, FiniteSets, TLC

\* ------------------------------------------------------------------ bounds
MaxPrice == 3        \* prices are 1..MaxPrice
HoldMonths == 7      \* each level of the pattern lasts this many months
MaxFullYears == 4    \* the analysed series have up to this many full years
MaxGrowthLen == 4    \* asset_growth alone: series of length 0..MaxGrowthLen
MaxT == 5            \* asset_growth alone: t in 1..MaxT
MaxLines == 3        \* fetch_data alone: files of 0..MaxLines lines
MaxDrop == 3         \* fetch_data alone: drop_points in 0..MaxDrop

\* ------------------------------------------------------- program constants
MonthsPerYear == 12

\* ------------------------------------------------------------------ floats
Abs(n) == IF n < 0 THEN -n ELSE n

RECURSIVE GCD(_, _)
GCD(a, b) == IF b = 0 THEN a ELSE GCD(b, a % b)

\* the float n/d, d # 0
Rat(n, d) ==
  LET g == GCD(Abs(n), Abs(d))
      s == IF d < 0 THEN -1 ELSE 1
  IN  <<(s * n) \div g, (s * d) \div g>>

RatInt(n) == <<n, 1>>
RatAdd(x, y) == Rat(x[1] * y[2] + y[1] * x[2], x[2] * y[2])
RatMul(x, y) == Rat(x[1] * y[1], x[2] * y[2])
RatDiv(x, y) == Rat(x[1] * y[2], x[2] * y[1])
RatLess(x, y) == x[1] * y[2] < y[1] * x[2]
RatLeq(x, y) == x[1] * y[2] <= y[1] * x[2]

RECURSIVE RatPow(_, _)
RatPow(x, n) == IF n = 0 THEN RatInt(1) ELSE RatMul(x, RatPow(x, n - 1))

\* ------------------------------------------------------------ Python lists
At(s, i) == s[i + 1]

Min(a, b) == IF a < b THEN a ELSE b
Max(a, b) == IF a > b THEN a ELSE b

\* position a slice bound names in a list of length n (bound clamped)
SliceBound(n, i) == IF i < 0 THEN Max(0, n + i) ELSE Min(n, i)

\* s[:stop]
SliceStop(s, stop) == SubSeq(s, 1, SliceBound(Len(s), stop))

\* s[start::-1]: from position start down to the first element
SliceReverseFrom(s, start) ==
  LET top == IF start < 0 THEN Len(s) + start ELSE Min(start, Len(s) - 1)
  IN  IF top < 0 THEN <<>> ELSE [k \in 1..(top + 1) |-> s[top + 2 - k]]

\* range(start, stop)
Range(start, stop) ==
  IF stop <= start THEN <<>> ELSE [k \in 1..(stop - start) |-> start + k - 1]

Last(s) == s[Len(s)]

Unbound == <<"unbound">> \* a local that was never assigned
Unused == "unused"       \* a variable outside the part that is running

VARIABLES
  pc,                \* position of the running part
  argv_ok,           \* whether argparse accepts sys.argv[1:]
  stdout,            \* the notices printed so far
  exit_status,       \* the status the process exited with
  file_lines,        \* file_in.readlines() of the input file
  opts,              \* the parsed options
  asset_prices, min_date, max_date,
  raised,            \* the exception that left the running function
  prices_over_time, t, growth_ratios,
  ratios_over_time, price_idx,
  time_interval, purchase_idx, growth_ratio, recovery_months, months,
  future_cpi, recover_times, non_recovery

procVars == <<argv_ok, stdout, exit_status>>
loadVars == <<file_lines, asset_prices, min_date, max_date>>
growthVars == <<prices_over_time, t, growth_ratios>>
mainVars == <<ratios_over_time, price_idx>>
walkVars == <<time_interval, purchase_idx, growth_ratio, recovery_months,
              months, future_cpi, recover_times, non_recovery>>
vars == <<pc, opts, raised, procVars, loadVars, growthVars, mainVars, walkVars>>

ProcUnused == argv_ok = Unused /\ stdout = Unused /\ exit_status = Unused
GrowthUnused == prices_over_time = Unused /\ t = Unused /\ growth_ratios = Unused
MainUnused == ratios_over_time = Unused /\ price_idx = Unused
WalkUnused ==
  /\ time_interval = Unused /\ purchase_idx = Unused /\ growth_ratio = Unused
  /\ recovery_months = Unused /\ months = Unused /\ future_cpi = Unused
  /\ recover_times = Unused /\ non_recovery = Unused

\* -------------------------------------------------------------- fetch_data
\* A line of the file is the sequence of its characters.
Whitespace == {" ", "\t", "\n"}
Digits == <<"0", "1", "2", "3", "4", "5", "6", "7", "8", "9">>

RECURSIVE LStrip(_)
LStrip(s) ==
  IF s # <<>> /\ Head(s) \in Whitespace THEN LStrip(Tail(s)) ELSE s

RECURSIVE RStrip(_)
RStrip(s) ==
  IF s # <<>> /\ Last(s) \in Whitespace
    THEN RStrip(SubSeq(s, 1, Len(s) - 1)) ELSE s

\* str.strip()
Strip(s) == RStrip(LStrip(s))

\* str.split(sep): the fields between the separators, empty ones included
RECURSIVE SplitFrom(_, _, _, _)
SplitFrom(s, sep, fields, field) ==
  IF s = <<>> THEN Append(fields, field)
  ELSE IF Head(s) = sep THEN SplitFrom(Tail(s), sep, Append(fields, field), <<>>)
  ELSE SplitFrom(Tail(s), sep, fields, Append(field, Head(s)))

Split(s, sep) == SplitFrom(s, sep, <<>>, <<>>)

\* str.replace(c, '')
Remove(s, c) == SelectSeq(s, LAMBDA x : x # c)

DigitValue(c) == CHOOSE d \in 0..9 : Digits[d + 1] = c

\* whether float(s) accepts s (the modelled characters have no sign, point
\* or exponent)
IsNumber(s) == s # <<>> /\ \A k \in 1..Len(s) : \E d \in 1..10 : Digits[d] = s[k]

RECURSIVE Float(_)
Float(s) == IF s = <<>> THEN 0 ELSE 10 * Float(SubSeq(s, 1, Len(s) - 1)) + DigitValue(Last(s))

\* the loop of fetch_data over the remaining lines; st holds the locals
RECURSIVE fetch_loop(_, _)
fetch_loop(lines, st) ==
  IF lines = <<>> \/ st.raised # "none" THEN st
  ELSE
    LET line_values == Split(Strip(Head(lines)), "\t")
        price == Remove(At(line_values, Len(line_values) - 2), ",")
    IN  IF Len(line_values) > 2
          THEN IF IsNumber(price)
                 THEN fetch_loop(Tail(lines),
                        [st EXCEPT !.asset_prices = Append(@, Float(price)),
                                   !.min_date = IF @ = <<>> THEN line_values[1] ELSE @,
                                   !.max_date = line_values[1]])
                 ELSE [st EXCEPT !.raised = "ValueError"]
          ELSE fetch_loop(Tail(lines), st)

\* fetch_data(stock_input, drop_points) on the file whose lines are lines
fetch_data(lines, drop_points) ==
  LET st == fetch_loop(SliceReverseFrom(lines, -drop_points - 1),
                       [asset_prices |-> <<>>, min_date |-> <<>>,
                        max_date |-> Unbound, raised |-> "none"])
  IN  IF st.raised = "none" /\ st.max_date = Unbound
        THEN [st EXCEPT !.raised = "UnboundLocalError"]
        ELSE st

\* ------------------------------------------------------------ asset_growth
\* the slice stops one purchase early
asset_growth_short(prices, tt) ==
  LET purchases == SliceStop(prices, -tt - 1)
  IN  [k \in 1..Len(purchases) |-> Rat(At(prices, (k - 1) + tt), purchases[k])]

asset_growth(prices, tt) ==
  LET purchases == SliceStop(prices, -tt)
  IN  [k \in 1..Len(purchases) |-> Rat(At(prices, (k - 1) + tt), purchases[k])]

\* ---------------------------------------------------------------- compound
compound(principal, rate, num_compound, time) ==
  RatMul(principal,
         RatPow(RatAdd(RatInt(1), RatDiv(rate, RatInt(num_compound))),
                num_compound * time))

\* ------------------------------------------------------------- input files
\* date, open, adjusted close, volume; as readlines() returns it
LinePrice == <<"a", "\t", "7", "\t", "1", "\t", "9", "\n">>
\* date, adjusted close with a thousands separator, volume
LineThousands == <<"b", "\t", "2", ",", "0", "\t", "9">>
\* a dividend notice: two fields
LineDividend == <<"c", "\t", "d">>
LineBlank == <<"\n">>
\* a day without data: the adjusted close is a dash
LineNoData == <<"e", "\t", "-", "\t", "9">>

LineSamples == {LinePrice, LineThousands, LineDividend, LineBlank, LineNoData}

SeqsUpTo(S, n) == UNION {[1..k -> S] : k \in 0..n}

Files == SeqsUpTo(LineSamples, MaxLines)

\* ==================================================== fetch_data on its own
InitLoader ==
  /\ pc = "fetch_data"
  /\ file_lines \in Files
  /\ opts \in [drop_points : 0..MaxDrop]
  /\ asset_prices = <<>> /\ min_date = <<>> /\ max_date = Unbound
  /\ raised = "none"
  /\ ProcUnused /\ GrowthUnused /\ MainUnused /\ WalkUnused

CallFetchData ==
  /\ pc = "fetch_data"
  /\ LET r == fetch_data(file_lines, opts.drop_points)
     IN  /\ asset_prices' = r.asset_prices
         /\ min_date' = r.min_date
         /\ max_date' = r.max_date
         /\ raised' = r.raised
  /\ pc' = "fetch_data_done"
  /\ UNCHANGED <<opts, file_lines, procVars, growthVars, mainVars, walkVars>>

NextLoader == CallFetchData

SpecLoader == InitLoader /\ [][NextLoader]_vars

\* ================================================== asset_growth on its own
InitGrowth ==
  /\ pc = "asset_growth"
  /\ prices_over_time \in SeqsUpTo(1..MaxPrice, MaxGrowthLen)
  /\ t \in 1..MaxT
  /\ growth_ratios = <<>>
  /\ opts = Unused /\ raised = "none"
  /\ file_lines = Unused /\ asset_prices = Unused
  /\ min_date = Unused /\ max_date = Unused
  /\ ProcUnused /\ MainUnused /\ WalkUnused

CallAssetGrowth ==
  /\ pc = "asset_growth"
  /\ growth_ratios' = asset_growth(prices_over_time, t)
  /\ pc' = "asset_growth_done"
  /\ UNCHANGED <<opts, raised, prices_over_time, t, procVars, loadVars,
                 mainVars, walkVars>>

NextGrowth == CallAssetGrowth

SpecGrowth == InitGrowth /\ [][NextGrowth]_vars

\* ============================================ main and time_to_catch_up_cpi
\* The state after fetch_data returned the series to main (line 199).

\* annual rates (percent) whose benchmarks are exact floats
Rates == {-25, 0, 25}

\* n prices that go through the levels of pattern again and again, staying
\* HoldMonths months on each
Periodic(pattern, n) ==
  [k \in 1..n |-> pattern[(((k - 1) \div HoldMonths) % Len(pattern)) + 1]]

\* two full years and a month, MaxFullYears full years and a month
SeriesLengths == {MonthsPerYear * y + 1 : y \in {2, MaxFullYears}}

Init ==
  /\ pc = "populate"
  /\ opts \in [num_years : {2, MaxFullYears + 1},
               cpi : Rates, recovery : BOOLEAN]
  /\ \E a, b, c \in 1..MaxPrice, n \in SeriesLengths :
       asset_prices = Periodic(<<a, b, c>>, n)
  /\ ratios_over_time = <<>> /\ price_idx = <<>>
  /\ time_interval = 0 /\ purchase_idx = -1 /\ growth_ratio = Unbound
  /\ recovery_months = 0 /\ months = 0 /\ future_cpi = Unbound
  /\ recover_times = <<>> /\ non_recovery = <<>>
  /\ stdout = <<>>
  /\ raised = "none"
  /\ argv_ok = Unused /\ exit_status = Unused
  /\ file_lines = Unused /\ min_date = Unused /\ max_date = Unused
  /\ GrowthUnused

\* the values of num_years the populate loop of main goes through
populate_range == Range(1, Min(opts.num_years, Len(asset_prices) \div MonthsPerYear))

\* one iteration of the populate loop
PopulateYear ==
  /\ pc = "populate"
  /\ Len(ratios_over_time) < Len(populate_range)
  /\ LET num_years == populate_range[Len(ratios_over_time) + 1]
     IN  /\ ratios_over_time' =
               Append(ratios_over_time,
                      asset_growth(asset_prices, MonthsPerYear * num_years))
         /\ price_idx' =
               Append(price_idx,
                      compound(RatInt(1), Rat(opts.cpi, 100), 1, num_years))
  /\ UNCHANGED <<pc, opts, raised, procVars, loadVars, growthVars, walkVars>>

\* the populate loop is over: plot_performance_distribution, then the
\* recovery analysis if it was asked for
PlotPerformance ==
  /\ pc = "populate"
  /\ Len(ratios_over_time) = Len(populate_range)
  /\ stdout' = Append(stdout, "Saved to roi_dist")
  /\ pc' = IF opts.recovery THEN "for_interval" ELSE "show"
  /\ UNCHANGED <<opts, raised, argv_ok, exit_status, loadVars, growthVars,
                 mainVars, walkVars>>

\* ---- time_to_catch_up_cpi(ratios_over_time, price_idx, asset_prices)
\* the growth_ratios and cpi of the current time_interval (line 128)
cur_growth_ratios == ratios_over_time[time_interval]
cur_cpi == price_idx[time_interval]
purchase_price == At(asset_prices, purchase_idx)

\* growth_ratio <= cpi
Underperforms_or_equal(ratio, cpi) == RatLeq(ratio, cpi)
\* line 132
Underperforms(ratio, cpi) == RatLess(ratio, cpi)
\* first index of asset_prices[purchase_idx + 12*time_interval:]
WalkStart(idx, interval) == idx + MonthsPerYear * interval
\* longer_investment_growth >= growth_ratio
Improves_or_equal(longer, ratio) == RatLeq(ratio, longer)
\* line 140
Improves(longer, ratio) == RatLess(ratio, longer)
\* the CPI of the year after the extended holding period
FutureIdx_next_year(interval, rm) == interval + rm \div MonthsPerYear
\* the index of price_idx read at line 145
FutureIdx(interval, rm) == interval + 1 + rm \div MonthsPerYear
\* growth_ratio > future_cpi
Clears_strictly(ratio, cpi) == RatLess(cpi, ratio)
\* line 151
Clears(ratio, cpi) == RatLeq(cpi, ratio)
\* recovery_months/12
Years(rm) == Rat(rm, MonthsPerYear)

AppendToLast(lists, x) == [lists EXCEPT ![Len(lists)] = Append(@, x)]

\* next (time_interval, (growth_ratios, cpi)) of the zip
ForInterval ==
  /\ pc = "for_interval"
  /\ time_interval < Min(Len(ratios_over_time), Len(price_idx))
  /\ time_interval' = time_interval + 1
  /\ recover_times' = Append(recover_times, <<>>)
  /\ non_recovery' = Append(non_recovery, <<>>)
  /\ purchase_idx' = -1
  /\ pc' = "for_purchase"
  /\ UNCHANGED <<opts, raised, procVars, loadVars, growthVars, mainVars,
                 growth_ratio, recovery_months, months, future_cpi>>

\* the zip is exhausted: return, then plot_recovery_distribution
PlotRecovery ==
  /\ pc = "for_interval"
  /\ time_interval >= Min(Len(ratios_over_time), Len(price_idx))
  /\ stdout' = Append(stdout, "Saved to recovery")
  /\ pc' = "show"
  /\ UNCHANGED <<opts, raised, argv_ok, exit_status, loadVars, growthVars,
                 mainVars, walkVars>>

\* next purchase, not below the CPI
ForPurchaseSkip ==
  /\ pc = "for_purchase"
  /\ purchase_idx + 1 < Len(cur_growth_ratios)
  /\ ~Underperforms(At(cur_growth_ratios, purchase_idx + 1), cur_cpi)
  /\ purchase_idx' = purchase_idx + 1
  /\ growth_ratio' = At(cur_growth_ratios, purchase_idx + 1)
  /\ UNCHANGED <<pc, opts, raised, procVars, loadVars, growthVars, mainVars,
                 time_interval, recovery_months, months, future_cpi,
                 recover_times, non_recovery>>

\* next purchase, below the CPI: start the walk
ForPurchaseWalk ==
  /\ pc = "for_purchase"
  /\ purchase_idx + 1 < Len(cur_growth_ratios)
  /\ Underperforms(At(cur_growth_ratios, purchase_idx + 1), cur_cpi)
  /\ purchase_idx' = purchase_idx + 1
  /\ growth_ratio' = At(cur_growth_ratios, purchase_idx + 1)
  /\ recovery_months' = 0
  /\ months' = 0
  /\ pc' = "for_months"
  /\ UNCHANGED <<opts, raised, procVars, loadVars, growthVars, mainVars,
                 time_interval, future_cpi, recover_times, non_recovery>>

\* the purchases of this time_interval are exhausted
ForPurchaseDone ==
  /\ pc = "for_purchase"
  /\ purchase_idx + 1 >= Len(cur_growth_ratios)
  /\ pc' = "for_interval"
  /\ UNCHANGED <<opts, raised, procVars, loadVars, growthVars, mainVars,
                 walkVars>>

\* whether the walk has a next (months, rest_value)
WalkHasNext ==
  WalkStart(purchase_idx, time_interval) + months < Len(asset_prices)
rest_value == At(asset_prices, WalkStart(purchase_idx, time_interval) + months)
longer_investment_growth == Rat(rest_value, purchase_price)

\* line 140 is false
WalkNoImprovement ==
  /\ pc = "for_months"
  /\ WalkHasNext
  /\ ~Improves(longer_investment_growth, growth_ratio)
  /\ months' = months + 1
  /\ UNCHANGED <<pc, opts, raised, procVars, loadVars, growthVars, mainVars,
                 time_interval, purchase_idx, growth_ratio, recovery_months,
                 future_cpi, recover_times, non_recovery>>

\* improved, and price_idx has no such index (IndexError)
WalkImprovedNoCpi ==
  /\ pc = "for_months"
  /\ WalkHasNext
  /\ Improves(longer_investment_growth, growth_ratio)
  /\ FutureIdx(time_interval, months + 1) >= Len(price_idx)
  /\ months' = months + 1
  /\ growth_ratio' = longer_investment_growth
  /\ recovery_months' = months + 1
  /\ non_recovery' = AppendToLast(non_recovery, Years(months + 1))
  /\ pc' = "for_purchase"
  /\ UNCHANGED <<opts, raised, procVars, loadVars, growthVars, mainVars,
                 time_interval, purchase_idx, future_cpi, recover_times>>

\* improved and caught up with the future CPI
WalkRecovered ==
  /\ pc = "for_months"
  /\ WalkHasNext
  /\ Improves(longer_investment_growth, growth_ratio)
  /\ FutureIdx(time_interval, months + 1) < Len(price_idx)
  /\ Clears(longer_investment_growth,
            At(price_idx, FutureIdx(time_interval, months + 1)))
  /\ months' = months + 1
  /\ growth_ratio' = longer_investment_growth
  /\ recovery_months' = months + 1
  /\ future_cpi' = At(price_idx, FutureIdx(time_interval, months + 1))
  /\ recover_times' = AppendToLast(recover_times, Years(months + 1))
  /\ pc' = "for_purchase"
  /\ UNCHANGED <<opts, raised, procVars, loadVars, growthVars, mainVars,
                 time_interval, purchase_idx, non_recovery>>

\* improved but still below the future CPI: keep walking
WalkImprovedBelowCpi ==
  /\ pc = "for_months"
  /\ WalkHasNext
  /\ Improves(longer_investment_growth, growth_ratio)
  /\ FutureIdx(time_interval, months + 1) < Len(price_idx)
  /\ ~Clears(longer_investment_growth,
             At(price_idx, FutureIdx(time_interval, months + 1)))
  /\ months' = months + 1
  /\ growth_ratio' = longer_investment_growth
  /\ recovery_months' = months + 1
  /\ future_cpi' = At(price_idx, FutureIdx(time_interval, months + 1))
  /\ UNCHANGED <<pc, opts, raised, procVars, loadVars, growthVars, mainVars,
                 time_interval, purchase_idx, recover_times, non_recovery>>

\* the else records the last month of the walk
WalkElse_last_month ==
  /\ pc = "for_months"
  /\ ~WalkHasNext
  /\ non_recovery' = AppendToLast(non_recovery, Years(months))
  /\ pc' = "for_purchase"
  /\ UNCHANGED <<opts, raised, procVars, loadVars, growthVars, mainVars,
                 time_interval, purchase_idx, growth_ratio, recovery_months,
                 months, future_cpi, recover_times>>

\* the else of the walk: the prices ran out without a break
WalkElse ==
  /\ pc = "for_months"
  /\ ~WalkHasNext
  /\ non_recovery' = AppendToLast(non_recovery, Years(recovery_months))
  /\ pc' = "for_purchase"
  /\ UNCHANGED <<opts, raised, procVars, loadVars, growthVars, mainVars,
                 time_interval, purchase_idx, growth_ratio, recovery_months,
                 months, future_cpi, recover_times>>

Next ==
  \/ PopulateYear \/ PlotPerformance
  \/ ForInterval \/ PlotRecovery
  \/ ForPurchaseSkip \/ ForPurchaseWalk \/ ForPurchaseDone
  \/ WalkNoImprovement \/ WalkImprovedNoCpi \/ WalkRecovered
  \/ WalkImprovedBelowCpi \/ WalkElse

Spec == Init /\ [][Next]_vars

\* ====================================================== the __main__ block
InitProc ==
  /\ pc = "parse_args"
  /\ argv_ok \in BOOLEAN
  /\ file_lines \in Files
  /\ opts \in [num_years : {10}, cpi : {2}, drop_points : 0..MaxDrop,
               recovery : BOOLEAN]
  /\ stdout = <<>>
  /\ exit_status = Unused
  /\ raised = "none"
  /\ asset_prices = <<>> /\ min_date = <<>> /\ max_date = Unbound
  /\ GrowthUnused /\ MainUnused /\ WalkUnused

\* parser.parse_args exits with status 2 on arguments it rejects
ParseArgsRejects ==
  /\ pc = "parse_args"
  /\ ~argv_ok
  /\ exit_status' = 2
  /\ pc' = "exited"
  /\ UNCHANGED <<opts, raised, argv_ok, stdout, loadVars, growthVars,
                 mainVars, walkVars>>

ParseArgsAccepts ==
  /\ pc = "parse_args"
  /\ argv_ok
  /\ pc' = "try"
  /\ UNCHANGED <<opts, raised, procVars, loadVars, growthVars, mainVars,
                 walkVars>>

\* main(opts) raises: in fetch_data, or in the plotting library (files this
\* short leave it nothing to draw, and saving a figure can fail)
MainRaises ==
  /\ pc = "try"
  /\ LET r == fetch_data(file_lines, opts.drop_points)
     IN  \/ r.raised # "none" /\ raised' = r.raised
         \/ r.raised = "none" /\ raised' = "Exception"
  /\ pc' = "except"
  /\ UNCHANGED <<opts, procVars, loadVars, growthVars, mainVars, walkVars>>

\* main(opts) returns, its plots saved
MainReturns ==
  /\ pc = "try"
  /\ fetch_data(file_lines, opts.drop_points).raised = "none"
  /\ stdout' = stdout \o <<"Saved to roi_dist">>
                      \o (IF opts.recovery THEN <<"Saved to recovery">> ELSE <<>>)
  /\ pc' = "finally"
  /\ UNCHANGED <<opts, raised, argv_ok, exit_status, loadVars, growthVars,
                 mainVars, walkVars>>

\* except Exception: report, then sys.exit(-1)
ExceptHandler ==
  /\ pc = "except"
  /\ stdout' = Append(stdout, "Unhandled error!")
  /\ raised' = "SystemExit"
  /\ pc' = "finally"
  /\ UNCHANGED <<opts, argv_ok, exit_status, loadVars, growthVars, mainVars,
                 walkVars>>

\* the notice sits at the end of the try body
Finally_after_success ==
  /\ pc = "finally"
  /\ stdout' = IF raised = "none" THEN Append(stdout, "All Done") ELSE stdout
  /\ exit_status' = IF raised = "SystemExit" THEN -1 ELSE 0
  /\ pc' = "exited"
  /\ UNCHANGED <<opts, raised, argv_ok, loadVars, growthVars, mainVars,
                 walkVars>>

\* finally: the notice, then the process ends
Finally ==
  /\ pc = "finally"
  /\ stdout' = Append(stdout, "All Done")
  /\ exit_status' = IF raised = "SystemExit" THEN -1 ELSE 0
  /\ pc' = "exited"
  /\ UNCHANGED <<opts, raised, argv_ok, loadVars, growthVars, mainVars,
                 walkVars>>

NextProc ==
  \/ ParseArgsRejects \/ ParseArgsAccepts
  \/ MainRaises \/ MainReturns
  \/ ExceptHandler \/ Finally

SpecProc == InitProc /\ [][NextProc]_vars

\* ================================================================== claims

\* C1: for a series of length L of non-zero prices and T >= 1, asset_growth
\* returns exactly max(0, L-T) ratios in purchase order, the i-th being
\* series[i+T]/series[i]; T >= L gives the empty list.
C1_GrowthRatios ==
  pc = "asset_growth_done" =>
    LET L == Len(prices_over_time)
    IN  /\ Len(growth_ratios) = Max(0, L - t)
        /\ \A i \in 0..(L - t - 1) :
             At(growth_ratios, i) =
               Rat(At(prices_over_time, i + t), At(prices_over_time, i))
        /\ (t >= L => growth_ratios = <<>>)

C1_Witness ==
  /\ pc = "asset_growth_done"
  /\ t >= 2
  /\ Len(growth_ratios) >= 2
  /\ growth_ratios[1] # growth_ratios[2]

\* C7: fetch_data never raises and returns the adjusted closes of exactly the
\* lines with at least 3 tab-separated fields among all but the last
\* drop_points lines, oldest (last in the file) first.
C7_Tabs(line) == Cardinality({k \in 1..Len(line) : line[k] = "\t"})
C7_AdjClose(line) == IF line = LinePrice THEN 1 ELSE IF line = LineThousands THEN 20 ELSE 0
RECURSIVE C7_Reverse(_)
C7_Reverse(s) == IF s = <<>> THEN <<>> ELSE Append(C7_Reverse(Tail(s)), Head(s))
C7_Expected ==
  LET kept == SubSeq(file_lines, 1, Max(0, Len(file_lines) - opts.drop_points))
      good == SelectSeq(kept, LAMBDA line : C7_Tabs(line) >= 2)
  IN  C7_Reverse([k \in 1..Len(good) |-> C7_AdjClose(good[k])])
C7_LoadsEveryFile ==
  pc = "fetch_data_done" => raised = "none" /\ asset_prices = C7_Expected

AfterPopulate == pc \in {"for_interval", "for_purchase", "for_months", "show"}

\* C2: after the populate loop ratios_over_time and price_idx have exactly
\* min(num_years, len(asset_prices) div 12) entries, entry t (0-based) being
\* the ratios over 12*(t+1) steps and the benchmark of t+1 years.
C2_PopulatesEveryYear ==
  AfterPopulate =>
    LET n == Min(opts.num_years, Len(asset_prices) \div 12)
    IN  /\ Len(ratios_over_time) = n
        /\ Len(price_idx) = n
        /\ \A k \in 0..(n - 1) :
             /\ At(ratios_over_time, k) = asset_growth(asset_prices, 12 * (k + 1))
             /\ At(price_idx, k) = RatPow(Rat(100 + opts.cpi, 100), k + 1)

\* the walk of purchase_idx (a purchase below its benchmark) has just ended
WalkOver ==
  /\ pc = "for_purchase"
  /\ purchase_idx >= 0
  /\ RatLess(At(ratios_over_time[time_interval], purchase_idx),
             price_idx[time_interval])

\* the ratio of the current purchase when sold at month mm of its walk
WalkRatio(mm) ==
  Rat(At(asset_prices, purchase_idx + 12 * time_interval + mm - 1),
      At(asset_prices, purchase_idx))

\* the ratio of the current purchase at its original sale
OriginalRatio == At(ratios_over_time[time_interval], purchase_idx)

\* how many months the walk of the current purchase has
WalkLength == Len(asset_prices) - purchase_idx - 12 * time_interval

\* C3: for every holding-period index, Recovered plus NotRecovered outcomes
\* are as many as the purchases strictly below the benchmark: exactly one
\* outcome for each of them, none for the others (after each purchase for
\* the purchases so far, after each holding period for all of them).
C3_Below(k, upto) ==
  {p \in 0..upto : RatLess(At(ratios_over_time[k], p), price_idx[k])}
C3_OneOutcomeEach ==
  /\ pc \in {"for_interval", "show"} =>
       \A k \in 1..Len(recover_times) :
         Len(recover_times[k]) + Len(non_recovery[k])
           = Cardinality(C3_Below(k, Len(ratios_over_time[k]) - 1))
  /\ pc = "for_purchase" =>
       Len(recover_times[time_interval]) + Len(non_recovery[time_interval])
         = Cardinality(C3_Below(time_interval, purchase_idx))

C3_Witness ==
  /\ pc = "show"
  /\ \E k \in 1..Len(recover_times) :
       /\ recover_times[k] # <<>>
       /\ non_recovery[k] # <<>>
       /\ Cardinality(C3_Below(k, Len(ratios_over_time[k]) - 1))
            < Len(ratios_over_time[k])

\* C4 as claimed: a walk that never has a ratio above the original one
\* records NotRecovered with the last month of the walk over 12, the whole
\* remaining length of the series in years.
C4_NeverImproves ==
  \A mm \in 1..WalkLength : ~RatLess(OriginalRatio, WalkRatio(mm))
C4_NotRecoveredAtFullLength ==
  [][(pc = "for_months" /\ pc' = "for_purchase" /\ C4_NeverImproves) =>
       /\ months' = WalkLength
       /\ non_recovery' =
            [non_recovery EXCEPT ![time_interval] = Append(@, Rat(months', 12))]
       /\ recover_times' = recover_times]_vars

\* C4 as amended: such a walk goes through the whole remaining series and
\* records NotRecovered with extra time 0.
C4_NotRecoveredAtZero ==
  [][(pc = "for_months" /\ pc' = "for_purchase" /\ C4_NeverImproves) =>
       /\ months' = WalkLength
       /\ non_recovery' =
            [non_recovery EXCEPT ![time_interval] = Append(@, Rat(0, 12))]
       /\ recover_times' = recover_times]_vars

C4_Witness ==
  /\ WalkOver
  /\ C4_NeverImproves
  /\ months = WalkLength
  /\ months > 12
  /\ Last(non_recovery[time_interval]) = Rat(0, 12)

\* C5: at an improving month m of a walk in time_interval the ratio is
\* compared with benchmarks[time_interval + m div 12] (0-based), and the
\* benchmark counts as unavailable exactly when that index is past the end.
C5_ForwardBenchmark ==
  [][(pc = "for_months" /\ months' = months + 1
        /\ RatLess(growth_ratio, WalkRatio(months + 1))) =>
       LET idx == time_interval + (months + 1) \div 12
       IN  IF idx >= Len(price_idx)
             THEN /\ pc' = "for_purchase"
                  /\ non_recovery' =
                       [non_recovery EXCEPT
                          ![time_interval] = Append(@, Rat(months + 1, 12))]
             ELSE /\ future_cpi' = At(price_idx, idx)
                  /\ non_recovery' = non_recovery]_vars

\* C8: with a non-decreasing benchmark sequence, a Recovered outcome of
\* month m is the first qualifying exit: the ratio at m is at least the
\* forward benchmark looked up for m, and at no earlier month of the walk
\* was the ratio at least the forward benchmark looked up for that month.
C8_NonDecreasing ==
  \A k \in 1..(Len(price_idx) - 1) : RatLeq(price_idx[k], price_idx[k + 1])
C8_Qualifies(mm) ==
  LET idx == time_interval + 1 + mm \div 12
  IN  idx < Len(price_idx) /\ RatLeq(At(price_idx, idx), WalkRatio(mm))
C9_RatchetingMaximum ==
  (pc = "for_months" \/ WalkOver) =>
    /\ RatLeq(OriginalRatio, growth_ratio)
    /\ \A mm \in 1..months : RatLeq(WalkRatio(mm), growth_ratio)
    /\ IF recovery_months = 0
         THEN growth_ratio = OriginalRatio
         ELSE /\ recovery_months \in 1..months
              /\ growth_ratio = WalkRatio(recovery_months)
              /\ RatLess(OriginalRatio, growth_ratio)
              /\ \A mm \in 1..(recovery_months - 1) :
                   RatLess(WalkRatio(mm), growth_ratio)

\* a second improvement after one that did not clear the forward benchmark
C9_Witness ==
  /\ pc = "for_months"
  /\ recovery_months > 1
  /\ months > recovery_months
  /\ \E mm \in 1..(recovery_months - 1) :
       /\ RatLess(OriginalRatio, WalkRatio(mm))
       /\ RatLess(WalkRatio(mm), growth_ratio)
  /\ \E mm \in (recovery_months + 1)..months :
       RatLess(OriginalRatio, WalkRatio(mm))

\* C10: with N benchmarks, a Recovered outcome of month m is recorded for
\* time_interval only if time_interval + 1 + m div 12 <= N - 1; the Recovered
\* buckets of time_interval N-1 and N stay empty, and a purchase there that
\* ever improves is recorded as NotRecovered at its first improving month.
C10_Months(years) == (years[1] * 12) \div years[2]
C10_Improving == {mm \in 1..WalkLength : RatLess(OriginalRatio, WalkRatio(mm))}
====
